---- MODULE Spec2Model ----
(***************************************************************************)
(* A model of loggerpython/logger.py: the class logger_class, its level    *)
(* filter (__should_log), its emitter (__log), the five fixed-level        *)
(* methods, set_loglevel, and the decorator (__call__ / wrapper).          *)
(*                                                                         *)
(* Python exceptions are modelled as a value "in flight" (exc): an action  *)
(* that raises sets exc; the function body that is running on top of the   *)
(* stack of wrapped invocations either handles it or lets it leave, which  *)
(* runs the wrapper's except/finally clauses; with no invocation left, the *)
(* top-level caller handles it, or, for SystemExit, the interpreter exits. *)
(* The wall clock is not modelled: a line carries the strftime pattern it  *)
(* is rendered with, and the elapsed time of an invocation is 0.           *)
(***************************************************************************)
EXTENDS Integers, Sequences, FiniteSets, TLC

VARIABLES
    loglevel,      \* self.loglevel
    format,        \* self.format
    out,           \* the lines printed to standard output, oldest first
    stack,         \* wrapped invocations whose inner function is running
    exc,           \* the exception propagating, NoExc when there is none
    process,       \* [alive, status]: the interpreter and its exit status
    invocations,   \* number of calls of a wrapped function made so far
    calls,         \* number of calls of the logger's interface made so far
    trace          \* history: every __log call and every wrapper event

vars == <<loglevel, format, out, stack, exc, process, invocations, calls, trace>>

\* Bounds of the exploration.
MaxCalls == 3
MaxDepth == 2

-----------------------------------------------------------------------------
\* Values

LOG_LEVELS == <<"DEBUG", "INFO", "WARNING", "ERROR", "CRITICAL">>

Range(s) == {s[i] : i \in 1..Len(s)}

\* Level strings a caller passes to the constructor and to set_loglevel.
LevelInputs == {"debug", "Info", "WARNING", "error", "Critical", "verbose"}

\* Messages a caller passes to debug .. critical.
Messages == {"x"}

\* The wrapped functions and the arguments they are called with.
WrappedCalls ==
    { [func |-> "add", args |-> <<2, 3>>, kwargs |-> <<>>],
      [func |-> "div", args |-> <<1>>,    kwargs |-> << <<"by", 0>> >>] }

\* What an inner function returns.
Results == {5}

NoExc == [type |-> "none", msg |-> "", code |-> 0]

ValueError(m) == [type |-> "ValueError", msg |-> m, code |-> 0]

KeyboardInterrupt == [type |-> "KeyboardInterrupt", msg |-> "", code |-> 0]

SystemExit(c) == [type |-> "SystemExit", msg |-> "", code |-> c]

\* What an inner function raises by itself.
FuncErrors == {ValueError("bad"), KeyboardInterrupt}

\* isinstance(e, Exception): SystemExit and KeyboardInterrupt derive from
\* BaseException only.
IsException(e) == e.type \in {"ValueError"}

-----------------------------------------------------------------------------
\* Strings

LowerCase == "abcdefghijklmnopqrstuvwxyz"

UpperCase == "ABCDEFGHIJKLMNOPQRSTUVWXYZ"

\* str.upper of one character: the letters a-z map to A-Z, every other
\* character of the inputs maps to itself.
UpperOf ==
    [c \in {SubSeq(LowerCase, i, i) : i \in 1..Len(LowerCase)} |->
        LET i == CHOOSE i \in 1..Len(LowerCase) : SubSeq(LowerCase, i, i) = c
        IN  SubSeq(UpperCase, i, i)]

UpperChar(c) == IF c \in DOMAIN UpperOf THEN UpperOf[c] ELSE c

RECURSIVE upper(_)
upper(s) ==
    IF s = "" THEN ""
    ELSE UpperChar(SubSeq(s, 1, 1)) \o upper(SubSeq(s, 2, Len(s)))

RECURSIVE join(_, _)
join(list, sep) ==
    IF list = <<>> THEN ""
    ELSE IF Len(list) = 1 THEN list[1]
    ELSE list[1] \o sep \o join(Tail(list), sep)

\* repr of an int
repr(v) == ToString(v)

\* "k=v!r" of one keyword argument
kwarg_repr(kv) == kv[1] \o "=" \o repr(kv[2])

arg_str(c) ==
    join([i \in 1..Len(c.args) |-> repr(c.args[i])]
           \o [i \in 1..Len(c.kwargs) |-> kwarg_repr(c.kwargs[i])], ", ")

-----------------------------------------------------------------------------
\* Level filter and emitter

\* LOG_LEVELS.index(x): the position of x, or 0 where Python raises
\* ValueError because x is not in the list.
list_index(x) ==
    IF \E i \in 1..Len(LOG_LEVELS) : LOG_LEVELS[i] = x
    THEN CHOOSE i \in 1..Len(LOG_LEVELS) :
            /\ LOG_LEVELS[i] = x
            /\ \A j \in 1..(i - 1) : LOG_LEVELS[j] # x
    ELSE 0

\* __should_log with > in place of >=.
should_log_strict(level) ==
    LET a == list_index(level)
        b == list_index(loglevel)
    IN  IF a = 0 THEN [raised |-> TRUE, of |-> level, value |-> FALSE]
        ELSE IF b = 0 THEN [raised |-> TRUE, of |-> loglevel, value |-> FALSE]
        ELSE [raised |-> FALSE, of |-> "", value |-> a > b]

\* __should_log: [raised, value]
should_log(level) ==
    LET a == list_index(level)
        b == list_index(loglevel)
    IN  IF a = 0 THEN [raised |-> TRUE, of |-> level, value |-> FALSE]
        ELSE IF b = 0 THEN [raised |-> TRUE, of |-> loglevel, value |-> FALSE]
        ELSE [raised |-> FALSE, of |-> "", value |-> a >= b]

Line(level, message) == [time |-> format, level |-> level, message |-> message]

\* __log without the sys.exit(1) of line 48.
emit_no_exit(s, level, message, by, sl) ==
    IF sl.raised
    THEN [out |-> s.out,
          trace |-> Append(s.trace,
              [kind |-> "log", by |-> by, level |-> level, message |-> message,
               thr |-> loglevel, written |-> FALSE, raised |-> "ValueError"]),
          raised |-> ValueError("'" \o sl.of \o "' is not in list")]
    ELSE [out |-> IF sl.value THEN Append(s.out, Line(level, message)) ELSE s.out,
          trace |-> Append(s.trace,
              [kind |-> "log", by |-> by, level |-> level, message |-> message,
               thr |-> loglevel, written |-> sl.value, raised |-> "none"]),
          raised |-> NoExc]

\* __log, lines 44-48, given sl, the outcome of __should_log. s = [out,
\* trace, raised] is the output so far; `by` is the wrapped invocation whose
\* wrapper makes the call, 0 for a call of debug .. critical.
emit(s, level, message, by, sl) ==
    IF sl.raised
    THEN [out |-> s.out,
          trace |-> Append(s.trace,
              [kind |-> "log", by |-> by, level |-> level, message |-> message,
               thr |-> loglevel, written |-> FALSE, raised |-> "ValueError"]),
          raised |-> ValueError("'" \o sl.of \o "' is not in list")]
    ELSE IF sl.value
    THEN [out |-> Append(s.out, Line(level, message)),
          trace |-> Append(s.trace,
              [kind |-> "log", by |-> by, level |-> level, message |-> message,
               thr |-> loglevel, written |-> TRUE,
               raised |-> IF level = "CRITICAL" THEN "SystemExit" ELSE "none"]),
          raised |-> IF level = "CRITICAL" THEN SystemExit(1) ELSE NoExc]
    ELSE [out |-> s.out,
          trace |-> Append(s.trace,
              [kind |-> "log", by |-> by, level |-> level, message |-> message,
               thr |-> loglevel, written |-> FALSE, raised |-> "none"]),
          raised |-> NoExc]

\* __log
log(s, level, message, by) == emit(s, level, message, by, should_log(level))

Here == [out |-> out, trace |-> trace, raised |-> NoExc]

\* A caller (the top level, or the inner function on top of the stack) is
\* running and may make a call.
CanCall == process.alive /\ exc = NoExc /\ calls < MaxCalls

\* The output s becomes the state.
Commit(s) ==
    /\ out' = s.out
    /\ trace' = s.trace
    /\ exc' = s.raised

LogCall(level, message) ==
    /\ CanCall
    /\ Commit(log(Here, level, message, 0))
    /\ calls' = calls + 1
    /\ UNCHANGED <<loglevel, format, stack, process, invocations>>

debug(message) == LogCall("DEBUG", message)

info(message) == LogCall("INFO", message)

warning(message) == LogCall("WARNING", message)

error(message) == LogCall("ERROR", message)

critical(message) == LogCall("CRITICAL", message)

\* The record of one set_loglevel call in the history.
SetEntry(level, after, raised) ==
    [kind |-> "set", arg |-> level, before |-> loglevel, after |-> after,
     raised |-> raised]

\* set_loglevel with the assignment of line 28 ahead of the check of line 25.
set_loglevel_unchecked(level) ==
    /\ CanCall
    /\ LET lv == upper(level)
       IN  /\ loglevel' = lv
           /\ trace' = Append(trace, SetEntry(level, lv, lv \notin Range(LOG_LEVELS)))
           /\ exc' = IF lv \notin Range(LOG_LEVELS)
                     THEN ValueError("Invalid log level '" \o lv
                              \o "'. Choose from: " \o join(LOG_LEVELS, ", "))
                     ELSE exc
    /\ calls' = calls + 1
    /\ UNCHANGED <<format, out, stack, process, invocations>>

set_loglevel(level) ==
    /\ CanCall
    /\ calls' = calls + 1
    /\ UNCHANGED <<format, out, stack, process, invocations>>
    /\ LET lv == upper(level)
       IN  IF lv \notin Range(LOG_LEVELS)
           THEN /\ UNCHANGED loglevel
                /\ trace' = Append(trace, SetEntry(level, loglevel, TRUE))
                /\ exc' = ValueError("Invalid log level '" \o lv
                              \o "'. Choose from: " \o join(LOG_LEVELS, ", "))
           ELSE /\ loglevel' = lv
                /\ trace' = Append(trace, SetEntry(level, lv, FALSE))
                /\ UNCHANGED exc

-----------------------------------------------------------------------------
\* The decorator

Frame(id, c) == [inv |-> id, func |-> c.func]

EndEntry(id, e, v) ==
    [kind |-> "end", inv |-> id,
     outcome |-> IF e = NoExc THEN "return" ELSE "raise",
     value |-> IF e = NoExc THEN v ELSE 0, exc |-> e]

\* wrapper, line 93: the inner function is called, unless line 90 raised
\* (s.raised), which ends the invocation.
enter(s, id, c) ==
    /\ invocations' = id
    /\ out' = s.out
    /\ exc' = s.raised
    /\ IF s.raised # NoExc
       THEN /\ trace' = Append(s.trace, EndEntry(id, s.raised, 0))
            /\ UNCHANGED stack
       ELSE /\ trace' = Append(s.trace,
                        [kind |-> "invoke", inv |-> id, call |-> c])
            /\ stack' = Append(stack, Frame(id, c))

\* wrapper, lines 85-93: from the call of the wrapped function to the call of
\* the inner function.
wrapper(c) ==
    /\ CanCall
    /\ Len(stack) < MaxDepth
    /\ enter(log(Here, "INFO",
                 "Calling " \o c.func \o "(" \o arg_str(c) \o ")",
                 invocations + 1),
             invocations + 1, c)
    /\ calls' = calls + 1
    /\ UNCHANGED <<loglevel, format, process>>

Cleared(s) == [s EXCEPT !.raised = NoExc]

\* wrapper, the end of the invocation: it returns res.value, or raises the
\* exception that leaves the finally clause.
conclude(s, fr, res, leaving) ==
    IF s.raised # NoExc
    THEN [s EXCEPT !.trace = Append(@, EndEntry(fr.inv, s.raised, res.value))]
    ELSE [out |-> s.out,
          trace |-> Append(s.trace, EndEntry(fr.inv, leaving, res.value)),
          raised |-> leaving]

\* wrapper, lines 99-102: finally.
finally_clause(s, fr, res, leaving) ==
    conclude(log(Cleared(s), "DEBUG",
                 fr.func \o " execution time: " \o "0.0000" \o "s ", fr.inv),
             fr, res, leaving)

\* Line 98 without the raise: the error is logged and swallowed.
reraise_swallow(s, fr, res, e) == finally_clause(s, fr, res, s.raised)

\* wrapper, line 98: the bare raise re-raises e, unless line 97 raised.
reraise(s, fr, res, e) ==
    finally_clause(s, fr, res, IF s.raised # NoExc THEN s.raised ELSE e)

\* Line 97 calling self.critical in place of self.error.
except_clause_critical(s, fr, res, e) ==
    IF e # NoExc /\ IsException(e)
    THEN reraise(log(Cleared(s), "CRITICAL",
                     "Error in " \o fr.func \o ": " \o e.msg, fr.inv),
                 fr, res, e)
    ELSE finally_clause(s, fr, res, e)

\* wrapper, lines 96-98: except Exception as e.
except_clause(s, fr, res, e) ==
    IF e # NoExc /\ IsException(e)
    THEN reraise(log(Cleared(s), "ERROR",
                     "Error in " \o fr.func \o ": " \o e.msg, fr.inv),
                 fr, res, e)
    ELSE finally_clause(s, fr, res, e)

\* wrapper, line 95: return result, unless line 94 raised.
returned(s, fr, res) == except_clause(s, fr, res, s.raised)

\* Line 94 calling self.debug in place of self.info.
try_body_debug_return(s, fr, res) ==
    IF res.outcome = "return"
    THEN returned(log(s, "DEBUG",
                      fr.func \o " returned " \o repr(res.value), fr.inv),
                  fr, res)
    ELSE except_clause(s, fr, res, res.exc)

\* wrapper, lines 93-95: the try body after the inner function has finished
\* with res = [outcome, value, exc].
try_body(s, fr, res) ==
    IF res.outcome = "return"
    THEN returned(log(s, "INFO",
                      fr.func \o " returned " \o repr(res.value), fr.inv),
                  fr, res)
    ELSE except_clause(s, fr, res, res.exc)

\* wrapper, lines 93-102, from the moment the inner function of frame fr
\* finishes.
finish(s, fr, res) ==
    try_body([s EXCEPT !.trace = Append(@,
                  [kind |-> "finish", inv |-> fr.inv, outcome |-> res.outcome,
                   value |-> res.value, exc |-> res.exc])],
             fr, res)

Top == stack[Len(stack)]

Finish(res) ==
    /\ Commit(finish(Here, Top, res))
    /\ stack' = SubSeq(stack, 1, Len(stack) - 1)
    /\ UNCHANGED <<loglevel, format, process, invocations, calls>>

\* The inner function returns v.
func_return(v) ==
    /\ process.alive /\ stack # <<>> /\ exc = NoExc
    /\ Finish([outcome |-> "return", value |-> v, exc |-> NoExc])

\* The inner function raises e itself.
func_raise(e) ==
    /\ process.alive /\ stack # <<>> /\ exc = NoExc
    /\ Finish([outcome |-> "raise", value |-> 0, exc |-> e])

\* The inner function does not handle the exception raised by a call it made.
func_propagate ==
    /\ process.alive /\ stack # <<>> /\ exc # NoExc
    /\ Finish([outcome |-> "raise", value |-> 0, exc |-> exc])

\* The inner function handles the exception raised by a call it made
\* (an `except Exception` of its own).
func_catch ==
    /\ process.alive /\ stack # <<>> /\ exc # NoExc /\ IsException(exc)
    /\ exc' = NoExc
    /\ UNCHANGED <<loglevel, format, out, stack, process, invocations, calls, trace>>

\* The top-level caller handles the exception raised by a call it made.
caller_catch ==
    /\ process.alive /\ stack = <<>> /\ exc # NoExc /\ exc.type # "SystemExit"
    /\ exc' = NoExc
    /\ UNCHANGED <<loglevel, format, out, stack, process, invocations, calls, trace>>

\* SystemExit leaves the top level: the interpreter exits with its code.
process_exit ==
    /\ process.alive /\ stack = <<>> /\ exc.type = "SystemExit"
    /\ process' = [alive |-> FALSE, status |-> exc.code]
    /\ UNCHANGED <<loglevel, format, out, stack, exc, invocations, calls, trace>>

-----------------------------------------------------------------------------

\* __init__(level), for every level string a caller may pass.
Init ==
    /\ \E level \in LevelInputs : loglevel = upper(level)
    /\ format = "%Y-%m-%d  %H:%M:%S"
    /\ out = <<>>
    /\ stack = <<>>
    /\ exc = NoExc
    /\ process = [alive |-> TRUE, status |-> 0]
    /\ invocations = 0
    /\ calls = 0
    /\ trace = <<>>

Next ==
    \/ \E m \in Messages : debug(m)
    \/ \E m \in Messages : info(m)
    \/ \E m \in Messages : warning(m)
    \/ \E m \in Messages : error(m)
    \/ \E m \in Messages : critical(m)
    \/ \E level \in LevelInputs : set_loglevel(level)
    \/ \E c \in WrappedCalls : wrapper(c)
    \/ \E v \in Results : func_return(v)
    \/ \E e \in FuncErrors : func_raise(e)
    \/ func_propagate
    \/ func_catch
    \/ caller_catch
    \/ process_exit

Spec == Init /\ [][Next]_vars

-----------------------------------------------------------------------------
\* Vocabulary of the properties

Severities == {"DEBUG", "INFO", "WARNING", "ERROR", "CRITICAL"}

\* The order DEBUG < INFO < WARNING < ERROR < CRITICAL.
Rank(l) ==
    CASE l = "DEBUG" -> 1
      [] l = "INFO" -> 2
      [] l = "WARNING" -> 3
      [] l = "ERROR" -> 4
      [] l = "CRITICAL" -> 5

\* The severity each level string names, "" when it names none.
Named(l) ==
    CASE l = "debug" -> "DEBUG"
      [] l = "Info" -> "INFO"
      [] l = "WARNING" -> "WARNING"
      [] l = "error" -> "ERROR"
      [] l = "Critical" -> "CRITICAL"
      [] OTHER -> ""

PrintedLine(level, message) ==
    [time |-> "%Y-%m-%d  %H:%M:%S", level |-> level, message |-> message]

IsLog(e) == e.kind = "log"

\* The history of invocation id: the calls of __log its wrapper made and its
\* invoke, finish and end events, in order.
Events(id) ==
    SelectSeq(trace, LAMBDA e :
        \/ e.kind = "log" /\ e.by = id
        \/ e.kind \in {"invoke", "finish", "end"} /\ e.inv = id)

Kinds(ev) == [i \in 1..Len(ev) |-> ev[i].kind]

\* The lines the history says were written.
Written(tr) ==
    LET w == SelectSeq(tr, LAMBDA e : e.kind = "log" /\ e.written)
    IN  [i \in 1..Len(w) |-> PrintedLine(w[i].level, w[i].message)]

\* A call of __log wrote its line iff its level is at or above the threshold.
Filtered(e) == e.written <=> (Rank(e.level) >= Rank(e.thr))

CallingText(c) ==
    IF c.func = "add" THEN "Calling add(2, 3)" ELSE "Calling div(1, by=0)"

\* C1: in every reachable state the threshold is one of the five severities.
C1_ThresholdIsSeverity == loglevel \in Severities

\* C2: set_loglevel with a string that names no severity raises and leaves
\* threshold and format as they were; with a string that names a severity in
\* any letter case it raises nothing and the threshold becomes that severity.
C2_SetLoglevel ==
    [][\A l \in LevelInputs : set_loglevel(l) =>
          IF Named(l) \in Severities
          THEN loglevel' = Named(l) /\ exc' = NoExc /\ format' = format
          ELSE /\ exc'.type = "ValueError"
               /\ loglevel' = loglevel
               /\ format' = format]_vars

C2_Witness ==
    \E i, j \in 1..Len(trace) :
        /\ trace[i].kind = "set" /\ trace[i].raised
        /\ trace[i].arg = "verbose"
        /\ trace[j].kind = "set" /\ ~trace[j].raised
        /\ trace[j].arg = "Critical" /\ trace[j].before = "INFO"
        /\ trace[j].after = "CRITICAL"

\* What the fixed-level method for S does at a threshold that is a severity.
FixedLevelEffect(S, m) ==
    loglevel \in Severities =>
        /\ out' = IF Rank(S) >= Rank(loglevel)
                  THEN Append(out, PrintedLine(S, m)) ELSE out
        /\ loglevel' = loglevel
        /\ format' = format

\* C3: at a threshold T the fixed-level method for S writes exactly one line
\* tagged [S] if rank(S) >= rank(T) and nothing otherwise, and leaves
\* threshold and format unchanged.
C3_FixedLevelMethods ==
    [][\A m \in Messages :
          /\ debug(m) => FixedLevelEffect("DEBUG", m)
          /\ info(m) => FixedLevelEffect("INFO", m)
          /\ warning(m) => FixedLevelEffect("WARNING", m)
          /\ error(m) => FixedLevelEffect("ERROR", m)
          /\ critical(m) => FixedLevelEffect("CRITICAL", m)]_vars

C3_Witness ==
    /\ loglevel = "WARNING"
    /\ Len(trace) = 3
    /\ \A i \in 1..3 : IsLog(trace[i]) /\ trace[i].by = 0 /\ trace[i].thr = "WARNING"
    /\ trace[1].level = "INFO" /\ ~trace[1].written
    /\ trace[2].level = "WARNING" /\ trace[2].written
    /\ trace[3].level = "ERROR" /\ trace[3].written
    /\ out = <<PrintedLine("WARNING", "x"), PrintedLine("ERROR", "x")>>

\* C4: at each of the five thresholds critical(message) writes exactly one
\* [CRITICAL] line and then raises SystemExit with status 1 instead of
\* returning; the process ends with that status only.
C4_CriticalExits ==
    /\ [][\A m \in Messages : (critical(m) /\ loglevel \in Severities) =>
             /\ out' = Append(out, PrintedLine("CRITICAL", m))
             /\ exc' = SystemExit(1)
             /\ process' = process]_vars
    /\ [](~process.alive => process.status = 1)

C4_Witness ==
    /\ ~process.alive /\ process.status = 1
    /\ Len(trace) = 1
    /\ IsLog(trace[1]) /\ trace[1].level = "CRITICAL"
    /\ trace[1].thr = "CRITICAL" /\ trace[1].written
    /\ out = <<PrintedLine("CRITICAL", "x")>>

\* C5: a [CRITICAL] line is the last line written: no line follows it.
C5_CriticalLineIsLast ==
    \A i \in 1..Len(out) : out[i].level = "CRITICAL" => i = Len(out)

\* The inner function of invocation id returned normally.
Returned(id) ==
    \E i \in 1..Len(trace) :
        /\ trace[i].kind = "finish" /\ trace[i].inv = id
        /\ trace[i].outcome = "return"

\* C6: an invocation whose inner function returns normally makes, in order,
\* the INFO "Calling" emit, the one call of the inner function, the INFO
\* "returned" emit and the DEBUG execution-time emit, and returns the inner
\* function's result; each emit writes its line iff its level is at or above
\* the threshold, so exactly these three lines at DEBUG.
C6_WrappedReturn ==
    /\ out = Written(trace)
    /\ \A id \in 1..invocations : Returned(id) =>
          LET ev == Events(id)
          IN  /\ Kinds(ev) = <<"log", "invoke", "finish", "log", "log", "end">>
              /\ ev[1].level = "INFO"
              /\ ev[1].message = CallingText(ev[2].call)
              /\ ev[4].level = "INFO"
              /\ ev[4].message = ev[2].call.func \o " returned 5"
              /\ ev[5].level = "DEBUG"
              /\ ev[5].message = ev[2].call.func \o " execution time: 0.0000s "
              /\ \A k \in {1, 4, 5} : Filtered(ev[k])
              /\ ev[6].outcome = "return"
              /\ ev[6].value = ev[3].value

C6_Witness ==
    /\ loglevel = "DEBUG"
    /\ invocations = 1 /\ stack = <<>> /\ exc = NoExc
    /\ Returned(1)
    /\ out = <<PrintedLine("INFO", "Calling add(2, 3)"),
               PrintedLine("INFO", "add returned 5"),
               PrintedLine("DEBUG", "add execution time: 0.0000s ")>>
    /\ trace[Len(trace)].kind = "end" /\ trace[Len(trace)].value = 5

\* The inner function of invocation id raised (or let through) an error.
Failed(id) ==
    \E i \in 1..Len(trace) :
        /\ trace[i].kind = "finish" /\ trace[i].inv = id
        /\ trace[i].outcome = "raise" /\ trace[i].exc.type = "ValueError"

\* C7: an invocation whose inner function raises an error e makes, in order,
\* the INFO "Calling" emit, the ERROR "Error in f: <message of e>" emit and
\* the DEBUG execution-time emit, makes no "returned" emit, and ends by
\* raising e itself; each emit writes its line iff its level is at or above
\* the threshold.
C7_WrappedError ==
    \A id \in 1..invocations : Failed(id) =>
        LET ev == Events(id)
        IN  /\ Kinds(ev) = <<"log", "invoke", "finish", "log", "log", "end">>
            /\ ev[1].level = "INFO"
            /\ ev[1].message = CallingText(ev[2].call)
            /\ ev[4].level = "ERROR"
            /\ ev[4].message =
                  "Error in " \o ev[2].call.func \o ": " \o ev[3].exc.msg
            /\ ev[5].level = "DEBUG"
            /\ ev[5].message = ev[2].call.func \o " execution time: 0.0000s "
            /\ \A k \in {1, 4, 5} : Filtered(ev[k])
            /\ ev[6].outcome = "raise"
            /\ ev[6].exc = ev[3].exc

C7_Witness ==
    /\ loglevel = "DEBUG"
    /\ invocations = 1 /\ stack = <<>>
    /\ Failed(1)
    /\ exc = ValueError("bad")
    /\ out = <<PrintedLine("INFO", "Calling div(1, by=0)"),
               PrintedLine("ERROR", "Error in div: bad"),
               PrintedLine("DEBUG", "div execution time: 0.0000s ")>>

\* The execution-time emits of invocation id, as positions of its history.
TimingAt(ev) == {k \in 1..Len(ev) : ev[k].kind = "log" /\ ev[k].level = "DEBUG"}

\* C8: an invocation that has ended (returned or raised to its caller) has
\* made its execution-time emit exactly once, after its "returned" or
\* "Error" emit and right before it ended.
C8_AlwaysTimed ==
    \A id \in 1..invocations :
        LET ev == Events(id)
        IN  (ev # <<>> /\ ev[Len(ev)].kind = "end") =>
                /\ Cardinality(TimingAt(ev)) = 1
                /\ TimingAt(ev) = {Len(ev) - 1}

\* C9: no call of the emitter raises ValueError.
C9_EmitNeverRaisesValueError ==
    \A i \in 1..Len(trace) : IsLog(trace[i]) => trace[i].raised # "ValueError"

\* C10: the wrapper emits at INFO, ERROR and DEBUG only and never reaches the
\* emitter's exit; SystemExit comes from a direct call of critical() alone.
C10_WrapperNeverExits ==
    /\ \A i \in 1..Len(trace) : (IsLog(trace[i]) /\ trace[i].by # 0) =>
          /\ trace[i].level \in {"INFO", "ERROR", "DEBUG"}
          /\ trace[i].raised # "SystemExit"
    /\ (exc.type = "SystemExit" \/ ~process.alive) =>
          \E i \in 1..Len(trace) :
              /\ IsLog(trace[i]) /\ trace[i].by = 0
              /\ trace[i].level = "CRITICAL"

C10_Witness ==
    /\ process.alive /\ stack = <<>>
    /\ invocations = 2
    /\ Failed(1) /\ Returned(2)
    /\ \A i \in 1..Len(trace) : IsLog(trace[i]) => trace[i].by # 0

====
